---- MODULE Spec2Model ----
(***************************************************************************)
(* The ERC20 token pallet of src/v1/src/lib.rs as a state machine.         *)
(*                                                                         *)
(* The pallet's storage (decl_storage!, lib.rs:151-161) is the record      *)
(* `storage`; every dispatchable of decl_module! (lib.rs:11-149) is a pure *)
(* operator from (storage, origin, arguments) to an outcome (the storage   *)
(* after the call, the DispatchResult and the deposited event), and one    *)
(* action of the state machine applies it.  Calls are dispatched one at a  *)
(* time: while a call is being reported, `last` holds it with its result   *)
(* and event and `pre` the storage it started from; Retire ends the report *)
(* and the next call can be dispatched.  `unspent` is a history variable:  *)
(* for every (owner, spender) that owner has approved, the value of the    *)
(* latest approve less the values that successful transfer_from calls have *)
(* moved for the pair since.                                               *)
(*                                                                         *)
(* Every origin is a signed one: the caller has been authenticated before  *)
(* the call reaches the pallet, and ensure_signed yields its account.      *)
(*                                                                         *)
(* u64 is scaled down to 0..MaxU64.  The unguarded `+` of lib.rs:92 and    *)
(* lib.rs:115 either panics (a build with overflow checks, the default of  *)
(* a debug profile) or wraps (a build without them, the default of a       *)
(* release profile): transfer and transfer_from take the flag `oc` that    *)
(* says which, and a call is dispatched with either value of it.           *)
(***************************************************************************)
EXTENDS Integers, Sequences, FiniteSets, TLC

VARIABLES storage, pre, last, unspent

vars == <<storage, pre, last, unspent>>

\* ------------------------------------------------------------- bounds

\* The largest value of the scaled-down u64.
MaxU64 == 2

\* ---------------------------------------------------------- constants

MaxNameLen == 64

MaxTickerLen == 32

DefaultDecimals == 18

\* ------------------------------------------------------------- inputs

AccountId == {"Alice", "Bob", "Carol"}

U64 == 0..MaxU64

\* A Vec<u8> of n bytes.
Bytes(n) == [i \in 1..n |-> 84]

\* A name of exactly the allowed length and one a byte longer.
NameArgs == {Bytes(MaxNameLen), Bytes(MaxNameLen + 1)}

TickerArgs == {Bytes(MaxTickerLen), Bytes(MaxTickerLen + 1)}

SupplyArgs == U64

DecimalsArgs == {8}

\* The (owner, spender) pairs that approve and transfer_from are called for:
\* an owner with another account as spender, and with itself.
AllowancePairs == {<<"Alice", "Bob">>, <<"Alice", "Alice">>}

\* Whether the build checks arithmetic overflow.
OverflowChecks == BOOLEAN

\* ------------------------------------------------------- storage maps

\* StorageMap::contains_key
contains_key(m, k) == k \in DOMAIN m

\* StorageMap::get of a value-query map: the default of u64 for an absent key.
get(m, k) == IF k \in DOMAIN m THEN m[k] ELSE 0

\* StorageMap::insert
insert(m, k, v) == [x \in (DOMAIN m) \cup {k} |-> IF x = k THEN v ELSE m[x]]

EmptyMap == [x \in {} |-> 0]

\* ------------------------------------------------------------ storage

\* decl_storage!: the storage after genesis.
InitialStorage ==
    [ MaxSupply  |-> 0,
      Decimals   |-> DefaultDecimals,
      Ticker     |-> <<>>,
      Minted     |-> FALSE,
      Name       |-> <<>>,
      Balances   |-> EmptyMap,
      Allowances |-> EmptyMap ]

NoEvent == <<>>

\* decl_error!: the errors a call returns.
MyError ==
    {"TickerTooBig", "NameTooBig", "NoValueStored", "NotEnoughFunds",
     "AlreadyMinted", "NotEnoughAllowance"}

\* What a dispatched call leaves: the storage, the DispatchResult, the event.
Outcome(s, result, event) == [storage |-> s, result |-> result, event |-> event]

\* ensure!(..) failed: Err(e) before any write.
Err(s, e) == Outcome(s, e, NoEvent)

\* The `+` of two u64 overflowed in a build that checks it.
Panic(s) == Outcome(s, "Panic", NoEvent)

\* a + b on u64 in a build without overflow checks.
wrapping_add(a, b) == (a + b) % (MaxU64 + 1)

overflows(a, b) == a + b > MaxU64

\* ------------------------------------------------------ dispatchables

\* mint without the AlreadyMinted guard of lib.rs:22.
mint_again(s, creator, nameArg, tickerArg, supply, decimalsArg) ==
    IF ~(Len(nameArg) <= MaxNameLen) THEN Err(s, "NameTooBig")
    ELSE IF ~(Len(tickerArg) <= MaxTickerLen) THEN Err(s, "TickerTooBig")
    ELSE Outcome([s EXCEPT !.Ticker = tickerArg,
                           !.Name = nameArg,
                           !.MaxSupply = supply,
                           !.Decimals = decimalsArg,
                           !.Balances = insert(s.Balances, creator, supply),
                           !.Minted = TRUE],
                 "Ok", NoEvent)

\* mint without the MaxSupply::put of lib.rs:26.
mint_without_max_supply(s, creator, nameArg, tickerArg, supply, decimalsArg) ==
    IF ~(Len(nameArg) <= MaxNameLen) THEN Err(s, "NameTooBig")
    ELSE IF ~(Len(tickerArg) <= MaxTickerLen) THEN Err(s, "TickerTooBig")
    ELSE IF ~(s.Minted = FALSE) THEN Err(s, "AlreadyMinted")
    ELSE Outcome([s EXCEPT !.Ticker = tickerArg,
                           !.Name = nameArg,
                           !.Decimals = decimalsArg,
                           !.Balances = insert(s.Balances, creator, supply),
                           !.Minted = TRUE],
                 "Ok", NoEvent)

\* mint with the AlreadyMinted guard of lib.rs:22 ahead of the two length
\* guards.
mint_minted_first(s, creator, nameArg, tickerArg, supply, decimalsArg) ==
    IF ~(s.Minted = FALSE) THEN Err(s, "AlreadyMinted")
    ELSE IF ~(Len(nameArg) <= MaxNameLen) THEN Err(s, "NameTooBig")
    ELSE IF ~(Len(tickerArg) <= MaxTickerLen) THEN Err(s, "TickerTooBig")
    ELSE Outcome([s EXCEPT !.Ticker = tickerArg,
                           !.Name = nameArg,
                           !.MaxSupply = supply,
                           !.Decimals = decimalsArg,
                           !.Balances = insert(s.Balances, creator, supply),
                           !.Minted = TRUE],
                 "Ok", NoEvent)

mint(s, creator, nameArg, tickerArg, supply, decimalsArg) ==
    IF ~(Len(nameArg) <= MaxNameLen) THEN Err(s, "NameTooBig")
    ELSE IF ~(Len(tickerArg) <= MaxTickerLen) THEN Err(s, "TickerTooBig")
    ELSE IF ~(s.Minted = FALSE) THEN Err(s, "AlreadyMinted")
    ELSE Outcome([s EXCEPT !.Ticker = tickerArg,
                           !.Name = nameArg,
                           !.MaxSupply = supply,
                           !.Decimals = decimalsArg,
                           !.Balances = insert(s.Balances, creator, supply),
                           !.Minted = TRUE],
                 "Ok", NoEvent)

name(s, user) == Outcome(s, "Ok", <<"NameReturned", s.Name>>)

symbol(s, user) == Outcome(s, "Ok", <<"TickerReturned", s.Ticker>>)

decimals(s, user) == Outcome(s, "Ok", <<"DecimalsReturned", s.Decimals>>)

total_supply(s, user) == Outcome(s, "Ok", <<"TotalSupplyReturned", s.MaxSupply>>)

\* balance_of that takes an entry holding zero for an absent one.
balance_of_zero_is_absent(s, user) ==
    IF get(s.Balances, user) = 0 THEN Err(s, "NoValueStored")
    ELSE Outcome(s, "Ok", <<"BalanceReturned", get(s.Balances, user)>>)

balance_of(s, user) ==
    IF ~contains_key(s.Balances, user) THEN Err(s, "NoValueStored")
    ELSE Outcome(s, "Ok", <<"BalanceReturned", get(s.Balances, user)>>)

\* StorageMap::remove.
remove(m, k) == [x \in (DOMAIN m) \ {k} |-> m[x]]

\* transfer that prunes the sender's entry once it is driven to zero.
transfer_pruning(s, user, to, value, oc) ==
    IF ~contains_key(s.Balances, user) THEN Err(s, "NoValueStored")
    ELSE LET owner_original_value == get(s.Balances, user) IN
         IF ~(owner_original_value >= value) THEN Err(s, "NotEnoughFunds")
         ELSE LET receiver_original_value == get(s.Balances, to)
                  owner_resulting_value == owner_original_value - value
                  receiver_resulting_value ==
                      wrapping_add(receiver_original_value, value)
                  debited == IF owner_resulting_value = 0
                             THEN remove(s.Balances, user)
                             ELSE insert(s.Balances, user, owner_resulting_value)
              IN IF oc /\ overflows(receiver_original_value, value) THEN Panic(s)
                 ELSE Outcome(
                        [s EXCEPT !.Balances =
                            insert(debited, to, receiver_resulting_value)],
                        "Ok", <<"Transfer", user, to, value>>)

\* transfer that also leaves an allowance entry for the pair (user, to).
transfer_creates_allowance(s, user, to, value, oc) ==
    IF ~contains_key(s.Balances, user) THEN Err(s, "NoValueStored")
    ELSE LET owner_original_value == get(s.Balances, user) IN
         IF ~(owner_original_value >= value) THEN Err(s, "NotEnoughFunds")
         ELSE LET receiver_original_value == get(s.Balances, to)
                  owner_resulting_value == owner_original_value - value
                  receiver_resulting_value ==
                      wrapping_add(receiver_original_value, value)
              IN IF oc /\ overflows(receiver_original_value, value) THEN Panic(s)
                 ELSE Outcome(
                        [s EXCEPT
                           !.Allowances =
                               insert(s.Allowances, <<user, to>>,
                                      get(s.Allowances, <<user, to>>)),
                           !.Balances =
                               insert(insert(s.Balances, user,
                                             owner_resulting_value),
                                      to, receiver_resulting_value)],
                        "Ok", <<"Transfer", user, to, value>>)

\* transfer without the contains_key guard of lib.rs:86.
transfer_unguarded(s, user, to, value, oc) ==
    LET owner_original_value == get(s.Balances, user) IN
    IF ~(owner_original_value >= value) THEN Err(s, "NotEnoughFunds")
    ELSE LET receiver_original_value == get(s.Balances, to)
             owner_resulting_value == owner_original_value - value
             receiver_resulting_value ==
                 wrapping_add(receiver_original_value, value)
         IN IF oc /\ overflows(receiver_original_value, value) THEN Panic(s)
            ELSE Outcome(
                   [s EXCEPT !.Balances =
                       insert(insert(s.Balances, user, owner_resulting_value),
                              to, receiver_resulting_value)],
                   "Ok", <<"Transfer", user, to, value>>)

transfer(s, user, to, value, oc) ==
    IF ~contains_key(s.Balances, user) THEN Err(s, "NoValueStored")
    ELSE LET owner_original_value == get(s.Balances, user) IN
         IF ~(owner_original_value >= value) THEN Err(s, "NotEnoughFunds")
         ELSE LET receiver_original_value == get(s.Balances, to)
                  owner_resulting_value == owner_original_value - value
                  receiver_resulting_value ==
                      wrapping_add(receiver_original_value, value)
              IN IF oc /\ overflows(receiver_original_value, value) THEN Panic(s)
                 ELSE Outcome(
                        [s EXCEPT !.Balances =
                            insert(insert(s.Balances, user, owner_resulting_value),
                                   to, receiver_resulting_value)],
                        "Ok", <<"Transfer", user, to, value>>)

\* transfer_from with the allowance written (lib.rs:117) right after the
\* allowance guard, before the guards on the balance of `from`.
transfer_from_early_write(s, user, from, to, value, oc) ==
    LET allowance_value == get(s.Allowances, <<from, to>>) IN
    IF ~(allowance_value >= value) THEN Err(s, "NotEnoughAllowance")
    ELSE LET w == [s EXCEPT !.Allowances =
                       insert(s.Allowances, <<from, to>>, allowance_value - value)]
         IN
         IF ~contains_key(w.Balances, from) THEN Err(w, "NoValueStored")
         ELSE LET owner_original_value == get(w.Balances, from) IN
              IF ~(owner_original_value >= value) THEN Err(w, "NotEnoughFunds")
              ELSE LET receiver_original_value == get(w.Balances, to) IN
                   IF oc /\ overflows(receiver_original_value, value)
                   THEN Panic(s)
                   ELSE Outcome(
                          [w EXCEPT !.Balances =
                              insert(insert(w.Balances, from,
                                            owner_original_value - value),
                                     to, wrapping_add(receiver_original_value,
                                                      value))],
                          "Ok", <<"Transfer", from, to, value>>)

\* transfer_from with the allowance written under the key (to, from).
transfer_from_swapped_key(s, user, from, to, value, oc) ==
    LET allowance_value == get(s.Allowances, <<from, to>>) IN
    IF ~(allowance_value >= value) THEN Err(s, "NotEnoughAllowance")
    ELSE IF ~contains_key(s.Balances, from) THEN Err(s, "NoValueStored")
    ELSE LET owner_original_value == get(s.Balances, from) IN
         IF ~(owner_original_value >= value) THEN Err(s, "NotEnoughFunds")
         ELSE LET receiver_original_value == get(s.Balances, to) IN
              IF oc /\ overflows(receiver_original_value, value) THEN Panic(s)
              ELSE Outcome(
                     [s EXCEPT
                        !.Allowances = insert(s.Allowances, <<to, from>>,
                                              allowance_value - value),
                        !.Balances =
                            insert(insert(s.Balances, from,
                                          owner_original_value - value),
                                   to, wrapping_add(receiver_original_value,
                                                    value))],
                     "Ok", <<"Transfer", from, to, value>>)

\* transfer_from without the allowance write of lib.rs:117.
transfer_from_keeps_allowance(s, user, from, to, value, oc) ==
    LET allowance_value == get(s.Allowances, <<from, to>>) IN
    IF ~(allowance_value >= value) THEN Err(s, "NotEnoughAllowance")
    ELSE IF ~contains_key(s.Balances, from) THEN Err(s, "NoValueStored")
    ELSE LET owner_original_value == get(s.Balances, from) IN
         IF ~(owner_original_value >= value) THEN Err(s, "NotEnoughFunds")
         ELSE LET receiver_original_value == get(s.Balances, to) IN
              IF oc /\ overflows(receiver_original_value, value) THEN Panic(s)
              ELSE Outcome(
                     [s EXCEPT
                        !.Balances =
                            insert(insert(s.Balances, from,
                                          owner_original_value - value),
                                   to, wrapping_add(receiver_original_value,
                                                    value))],
                     "Ok", <<"Transfer", from, to, value>>)

transfer_from(s, user, from, to, value, oc) ==
    LET allowance_value == get(s.Allowances, <<from, to>>) IN
    IF ~(allowance_value >= value) THEN Err(s, "NotEnoughAllowance")
    ELSE LET updated_allowance == allowance_value - value IN
         IF ~contains_key(s.Balances, from) THEN Err(s, "NoValueStored")
         ELSE LET owner_original_value == get(s.Balances, from) IN
              IF ~(owner_original_value >= value) THEN Err(s, "NotEnoughFunds")
              ELSE LET receiver_original_value == get(s.Balances, to)
                       owner_resulting_value == owner_original_value - value
                       receiver_resulting_value ==
                           wrapping_add(receiver_original_value, value)
                   IN IF oc /\ overflows(receiver_original_value, value)
                      THEN Panic(s)
                      ELSE Outcome(
                             [s EXCEPT
                                !.Allowances =
                                    insert(s.Allowances, <<from, to>>,
                                           updated_allowance),
                                !.Balances =
                                    insert(insert(s.Balances, from,
                                                  owner_resulting_value),
                                           to, receiver_resulting_value)],
                             "Ok", <<"Transfer", from, to, value>>)

\* approve that adds to the allowance already stored.
approve_additive(s, user, to, value) ==
    Outcome([s EXCEPT !.Allowances =
                insert(s.Allowances, <<user, to>>,
                       wrapping_add(get(s.Allowances, <<user, to>>), value))],
            "Ok", <<"Approval", user, to, value>>)

\* approve that also writes the allowance of the pair (to, user).
approve_symmetric(s, user, to, value) ==
    Outcome([s EXCEPT !.Allowances =
                insert(insert(s.Allowances, <<user, to>>, value),
                       <<to, user>>, value)],
            "Ok", <<"Approval", user, to, value>>)

approve(s, user, to, value) ==
    Outcome([s EXCEPT !.Allowances = insert(s.Allowances, <<user, to>>, value)],
            "Ok", <<"Approval", user, to, value>>)

allowance(s, user, to) ==
    IF ~contains_key(s.Allowances, <<user, to>>) THEN Err(s, "NoValueStored")
    ELSE Outcome(s, "Ok", <<"AllowanceReturned", get(s.Allowances, <<user, to>>)>>)

\* ------------------------------------------------------ state machine

\* No call has been dispatched yet.
NoCall == [op |-> "none", origin |-> "none", args |-> <<>>,
           result |-> "none", event |-> NoEvent]

Init ==
    /\ storage = InitialStorage
    /\ pre = InitialStorage
    /\ last = NoCall
    /\ unspent = EmptyMap

\* What the call leaves of the approved values: an approve sets the pair's to
\* its value, a successful transfer_from takes its value off the pair's.
Unspent(op, origin, args, out) ==
    IF op = "approve" /\ out.result = "Ok"
    THEN insert(unspent, <<origin, args[1]>>, args[2])
    ELSE IF /\ op = "transfer_from"
            /\ out.result = "Ok"
            /\ contains_key(unspent, <<args[1], args[2]>>)
         THEN insert(unspent, <<args[1], args[2]>>,
                     unspent[<<args[1], args[2]>>] - args[3])
         ELSE unspent

\* The runtime dispatches one extrinsic: the storage becomes what the call
\* leaves, and the call is reported with its result and event.
Dispatch(op, origin, args, out) ==
    /\ last = NoCall
    /\ storage' = out.storage
    /\ pre' = storage
    /\ last' = [op |-> op, origin |-> origin, args |-> args,
                result |-> out.result, event |-> out.event]
    /\ unspent' = Unspent(op, origin, args, out)

Mint ==
    \E creator \in AccountId, n \in NameArgs, t \in TickerArgs,
       supply \in SupplyArgs, d \in DecimalsArgs :
        Dispatch("mint", creator, <<n, t, supply, d>>,
                 mint(storage, creator, n, t, supply, d))

Name ==
    \E user \in AccountId :
        Dispatch("name", user, <<>>, name(storage, user))

Symbol ==
    \E user \in AccountId :
        Dispatch("symbol", user, <<>>, symbol(storage, user))

Decimals ==
    \E user \in AccountId :
        Dispatch("decimals", user, <<>>, decimals(storage, user))

TotalSupply ==
    \E user \in AccountId :
        Dispatch("total_supply", user, <<>>, total_supply(storage, user))

BalanceOf ==
    \E user \in AccountId :
        Dispatch("balance_of", user, <<>>, balance_of(storage, user))

Transfer ==
    \E user \in AccountId, to \in AccountId, value \in U64,
       oc \in OverflowChecks :
        Dispatch("transfer", user, <<to, value>>,
                 transfer(storage, user, to, value, oc))

TransferFrom ==
    \E user \in AccountId, p \in AllowancePairs, value \in U64,
       oc \in OverflowChecks :
        Dispatch("transfer_from", user, <<p[1], p[2], value>>,
                 transfer_from(storage, user, p[1], p[2], value, oc))

Approve ==
    \E p \in AllowancePairs, value \in U64 :
        Dispatch("approve", p[1], <<p[2], value>>,
                 approve(storage, p[1], p[2], value))

Allowance ==
    \E user \in AccountId, to \in AccountId :
        Dispatch("allowance", user, <<to>>, allowance(storage, user, to))

\* The call has been reported; the runtime takes the next extrinsic.
Retire ==
    /\ last # NoCall
    /\ last' = NoCall
    /\ pre' = storage
    /\ UNCHANGED <<storage, unspent>>

Next ==
    \/ Retire
    \/ Mint
    \/ Name
    \/ Symbol
    \/ Decimals
    \/ TotalSupply
    \/ BalanceOf
    \/ Transfer
    \/ TransferFrom
    \/ Approve
    \/ Allowance

Spec == Init /\ [][Next]_vars

\* ------------------------------------------------------------- claims

\* The balance of account a in storage s, an absent entry counting as 0.
balance(s, a) == get(s.Balances, a)

HasBalance(s, a) == contains_key(s.Balances, a)

\* The sum of a map's values.
RECURSIVE SumOver(_, _)
SumOver(m, keys) ==
    IF keys = {} THEN 0
    ELSE LET k == CHOOSE x \in keys : TRUE
         IN m[k] + SumOver(m, keys \ {k})

Sum(m) == SumOver(m, DOMAIN m)

\* The reported call is op and returned Ok(()).
Succeeded(op) == last.op = op /\ last.result = "Ok"

\* C1: a successful transfer between two distinct accounts a and b of value v
\* leaves balance(a) exactly v lower and balance(b) exactly v higher (b's
\* entry being created when absent), so balance(a) + balance(b) is unchanged.
C1_TransferMovesValue ==
    (Succeeded("transfer") /\ last.origin # last.args[1]) =>
        LET a == last.origin
            b == last.args[1]
            v == last.args[2]
        IN /\ balance(storage, a) = balance(pre, a) - v
           /\ HasBalance(storage, b)
           /\ balance(storage, b) = balance(pre, b) + v
           /\ balance(storage, a) + balance(storage, b)
                = balance(pre, a) + balance(pre, b)

\* C2: a successful transfer whose caller and recipient are the same account
\* leaves that account's balance as it was.
C2_SelfTransferKeepsBalance ==
    (Succeeded("transfer") /\ last.origin = last.args[1]) =>
        balance(storage, last.origin) = balance(pre, last.origin)

\* C3: a call that returns an error leaves the whole storage, the keys of
\* both maps included, as it was before the call.
C3_ErrorLeavesStorage ==
    last.result \in MyError => storage = pre

\* A transfer_from that passed the allowance guard and the entry guard and
\* failed the last guard, on a storage with an allowance to spend.
C3_Witness ==
    /\ last.op = "transfer_from"
    /\ last.result = "NotEnoughFunds"
    /\ get(pre.Allowances, <<last.args[1], last.args[2]>>) > 0
    /\ storage = pre

\* C4: once minted is true it stays true, and from then on no call changes
\* name, ticker, decimals or maxSupply and no mint changes a balance.
C4_MintedOnce ==
    pre.Minted =>
        /\ storage.Minted
        /\ storage.Name = pre.Name
        /\ storage.Ticker = pre.Ticker
        /\ storage.Decimals = pre.Decimals
        /\ storage.MaxSupply = pre.MaxSupply
        /\ (last.op = "mint" => storage.Balances = pre.Balances)

\* A second mint, with arguments within the limits, another supply and a
\* creator that holds no balance entry, on a minted ledger.
C4_Witness ==
    /\ pre.Minted
    /\ last.op = "mint"
    /\ last.result = "AlreadyMinted"
    /\ last.args[3] # pre.MaxSupply
    /\ ~HasBalance(pre, last.origin)
    /\ storage = pre

\* C5: right after a successful mint(caller, name, ticker, supply, decimals)
\* minted is true, maxSupply is supply, the stored name, ticker and decimals
\* are the arguments, balance(caller) is supply and so is the sum of all
\* balances.
C5_MintEstablishes ==
    Succeeded("mint") =>
        /\ storage.Minted = TRUE
        /\ storage.Name = last.args[1]
        /\ storage.Ticker = last.args[2]
        /\ storage.MaxSupply = last.args[3]
        /\ storage.Decimals = last.args[4]
        /\ HasBalance(storage, last.origin)
        /\ balance(storage, last.origin) = last.args[3]
        /\ Sum(storage.Balances) = last.args[3]

\* A successful mint of a supply above zero, after an approve.
C5_Witness ==
    /\ Succeeded("mint")
    /\ last.args[3] > 0
    /\ pre.Allowances # EmptyMap
    /\ storage.MaxSupply = last.args[3]

\* C6: transfer fails with NoValueStored when the caller has no balance
\* entry, otherwise with NotEnoughFunds when value > balance(caller), and
\* otherwise succeeds; a failing transfer leaves both balances and the keys
\* of the balance map as they were.
C6_TransferOutcome ==
    last.op = "transfer" =>
        LET a == last.origin
            v == last.args[2]
        IN /\ last.result =
                IF ~HasBalance(pre, a) THEN "NoValueStored"
                ELSE IF v > balance(pre, a) THEN "NotEnoughFunds"
                ELSE "Ok"
           /\ last.result # "Ok" => storage.Balances = pre.Balances

\* C7: a successful transfer_from(from, to, value) lowers allowance[(from,to)]
\* by exactly value and, for from # to, lowers balance(from) and raises
\* balance(to) by exactly value; a failing one leaves the allowance alone.
C7_TransferFromMoves ==
    last.op = "transfer_from" =>
        LET from == last.args[1]
            to == last.args[2]
            v == last.args[3]
            key == <<from, to>>
        IN IF last.result = "Ok"
           THEN /\ get(storage.Allowances, key) = get(pre.Allowances, key) - v
                /\ from # to =>
                     /\ balance(storage, from) = balance(pre, from) - v
                     /\ balance(storage, to) = balance(pre, to) + v
           ELSE storage.Allowances = pre.Allowances

\* Between two calls: every storage the pallet reaches is the storage of such
\* a state.
Idle == last = NoCall

\* The outcome of transfer_from on the current storage is the same for every
\* signed origin.
CallerIrrelevant ==
    Idle =>
    \A from \in AccountId, to \in AccountId, value \in U64,
       oc \in OverflowChecks, u1 \in AccountId, u2 \in AccountId :
        transfer_from(storage, u1, from, to, value, oc)
            = transfer_from(storage, u2, from, to, value, oc)

\* C8: the outcome of transfer_from, result and storage, does not depend on
\* the caller, and the call succeeds whenever allowance[(from,to)] >= value
\* and `from` holds a balance >= value, whoever the caller is.
C8_CallerIrrelevantAndSucceeds ==
    /\ CallerIrrelevant
    /\ Idle =>
       \A user \in AccountId, from \in AccountId, to \in AccountId,
          value \in U64, oc \in OverflowChecks :
           ( /\ get(storage.Allowances, <<from, to>>) >= value
             /\ HasBalance(storage, from)
             /\ balance(storage, from) >= value )
           => transfer_from(storage, user, from, to, value, oc).result = "Ok"

\* C9: approve(caller, spender, value) never fails and leaves
\* allowance[(caller,spender)] at exactly value, whatever was stored before;
\* a second approve on what the first one left leaves the second value.
C9_ApproveOverwrites ==
    /\ last.op = "approve" =>
          /\ last.result = "Ok"
          /\ contains_key(storage.Allowances, <<last.origin, last.args[1]>>)
          /\ storage.Allowances[<<last.origin, last.args[1]>>] = last.args[2]
    /\ Idle =>
       \A user \in AccountId, to \in AccountId, v1 \in U64, v2 \in U64 :
          LET first == approve(storage, user, to, v1)
              second == approve(first.storage, user, to, v2)
          IN /\ first.result = "Ok"
             /\ second.result = "Ok"
             /\ get(first.storage.Allowances, <<user, to>>) = v1
             /\ get(second.storage.Allowances, <<user, to>>) = v2

\* An approve of a value above zero over a different stored value above zero.
C9_Witness ==
    /\ Succeeded("approve")
    /\ last.args[2] > 0
    /\ get(pre.Allowances, <<last.origin, last.args[1]>>) > 0
    /\ get(pre.Allowances, <<last.origin, last.args[1]>>) # last.args[2]
    /\ storage.Allowances[<<last.origin, last.args[1]>>] = last.args[2]

\* An allowance entry as stored: whether it is present, and its value.
Entry(s, key) == <<contains_key(s.Allowances, key), get(s.Allowances, key)>>

\* C10: an allowance entry (owner, spender) changes only when owner approves
\* spender, which sets it to the approved value, or when a
\* transfer_from(from = owner, to = spender, value) succeeds, which lowers
\* it by exactly value; only approve ever raises it.
C10_AllowanceChanges ==
    \A key \in AccountId \X AccountId :
        /\ Entry(storage, key) # Entry(pre, key) =>
              \/ /\ Succeeded("approve")
                 /\ key = <<last.origin, last.args[1]>>
                 /\ get(storage.Allowances, key) = last.args[2]
              \/ /\ Succeeded("transfer_from")
                 /\ key = <<last.args[1], last.args[2]>>
                 /\ get(storage.Allowances, key)
                      = get(pre.Allowances, key) - last.args[3]
        /\ get(storage.Allowances, key) > get(pre.Allowances, key) =>
              Succeeded("approve")

\* A successful transfer_from of a value above zero has lowered the
\* allowance it spent.
C10_Witness ==
    /\ Succeeded("transfer_from")
    /\ last.args[3] > 0
    /\ get(storage.Allowances, <<last.args[1], last.args[2]>>)
         < get(pre.Allowances, <<last.args[1], last.args[2]>>)

\* C11: an account that has a balance entry keeps it, and a pair that has an
\* allowance entry keeps it, through every call, also at the value zero.
C11_EntriesStay ==
    /\ DOMAIN pre.Balances \subseteq DOMAIN storage.Balances
    /\ DOMAIN pre.Allowances \subseteq DOMAIN storage.Allowances

\* A transfer and a transfer_from have driven a balance and an allowance to
\* zero, and both entries are still there.
C11_Witness ==
    /\ Succeeded("transfer_from")
    /\ last.args[3] > 0
    /\ last.args[1] # last.args[2]
    /\ contains_key(storage.Allowances, <<last.args[1], last.args[2]>>)
    /\ storage.Allowances[<<last.args[1], last.args[2]>>] = 0
    /\ HasBalance(storage, last.args[1])
    /\ storage.Balances[last.args[1]] = 0

\* C12: mint reports the first failing guard in the order NameTooBig (name
\* longer than 64), TickerTooBig (ticker longer than 32), AlreadyMinted
\* (minted is true), and succeeds otherwise, whoever the caller is.
C12_MintOutcome ==
    last.op = "mint" =>
        last.result =
            IF Len(last.args[1]) > MaxNameLen THEN "NameTooBig"
            ELSE IF Len(last.args[2]) > MaxTickerLen THEN "TickerTooBig"
            ELSE IF pre.Minted THEN "AlreadyMinted"
            ELSE "Ok"

\* A mint with an over-long name and an over-long ticker on a minted ledger
\* fails with NameTooBig.
C12_Witness ==
    /\ last.op = "mint"
    /\ pre.Minted
    /\ Len(last.args[1]) > MaxNameLen
    /\ Len(last.args[2]) > MaxTickerLen
    /\ last.result = "NameTooBig"

\* C13: transfer_from reports the first failing guard in the order
\* NotEnoughAllowance (allowance[(from,to)] < value, an absent entry counting
\* as 0), NoValueStored (from has no balance entry), NotEnoughFunds
\* (balance(from) < value), and succeeds otherwise.
C13_TransferFromOutcome ==
    last.op = "transfer_from" =>
        LET from == last.args[1]
            to == last.args[2]
            v == last.args[3]
        IN last.result =
             IF get(pre.Allowances, <<from, to>>) < v THEN "NotEnoughAllowance"
             ELSE IF ~HasBalance(pre, from) THEN "NoValueStored"
             ELSE IF balance(pre, from) < v THEN "NotEnoughFunds"
             ELSE "Ok"

\* C14: balance_of(caller) fails with NoValueStored exactly when caller has
\* no balance entry and otherwise reports BalanceReturned with the stored
\* amount, zero included; allowance(caller, to) fails with NoValueStored
\* exactly when (caller, to) has no allowance entry and otherwise reports
\* AllowanceReturned with the stored value. Neither changes the storage.
C14_QueryOutcome ==
    /\ last.op = "balance_of" =>
          /\ storage = pre
          /\ IF HasBalance(pre, last.origin)
             THEN /\ last.result = "Ok"
                  /\ last.event = <<"BalanceReturned", pre.Balances[last.origin]>>
             ELSE /\ last.result = "NoValueStored"
                  /\ last.event = NoEvent
    /\ last.op = "allowance" =>
          LET key == <<last.origin, last.args[1]>> IN
          /\ storage = pre
          /\ IF contains_key(pre.Allowances, key)
             THEN /\ last.result = "Ok"
                  /\ last.event = <<"AllowanceReturned", pre.Allowances[key]>>
             ELSE /\ last.result = "NoValueStored"
                  /\ last.event = NoEvent

\* balance_of of an account whose entry holds zero reports BalanceReturned(0).
C14_Witness ==
    /\ Succeeded("balance_of")
    /\ HasBalance(pre, last.origin)
    /\ pre.Balances[last.origin] = 0
    /\ pre.MaxSupply > 0
    /\ last.event = <<"BalanceReturned", 0>>

\* C15: once minted, whatever calls follow, the sum of all balance entries
\* equals maxSupply.
C15_SupplyConserved ==
    storage.Minted => Sum(storage.Balances) = storage.MaxSupply

\* C16: no transfer or transfer_from that passes its guards adds to the
\* recipient's balance a value that takes it above the maximum of u64.
C16_CreditNeverOverflows ==
    /\ (last.op = "transfer" /\ last.result \in {"Ok", "Panic"}) =>
          ~overflows(balance(pre, last.args[1]), last.args[2])
    /\ (last.op = "transfer_from" /\ last.result \in {"Ok", "Panic"}) =>
          ~overflows(balance(pre, last.args[2]), last.args[3])

\* C17: after approve(owner, spender, v) and until owner's next approve for
\* spender, the values moved by the successful transfer_from(owner, spender)
\* calls total at most v: what is left of v is never negative and is what the
\* allowance entry holds, and each such call moves at most the allowance left
\* at that moment.
C17_SpendWithinApproval ==
    /\ \A key \in DOMAIN unspent :
          /\ unspent[key] >= 0
          /\ contains_key(storage.Allowances, key)
          /\ storage.Allowances[key] = unspent[key]
    /\ Succeeded("transfer_from") =>
          last.args[3] <= get(pre.Allowances, <<last.args[1], last.args[2]>>)

\* A successful transfer_from between two accounts has moved the last of an
\* approved value.
C17_Witness ==
    /\ Succeeded("transfer_from")
    /\ last.args[3] > 0
    /\ last.args[1] # last.args[2]
    /\ contains_key(unspent, <<last.args[1], last.args[2]>>)
    /\ unspent[<<last.args[1], last.args[2]>>] = 0
    /\ balance(storage, last.args[2]) > 0

\* C18: an allowance entry (owner, spender) is present only if owner has
\* earlier called approve for spender.
C18_EntryOnlyAfterApprove ==
    DOMAIN storage.Allowances \subseteq DOMAIN unspent

\* C18, as the code has it: an allowance entry (owner, spender) is created
\* only by owner's approve for spender or, holding zero, by a successful
\* transfer_from(owner, spender, 0); so an entry of a pair that was never
\* approved holds zero, and the allowance query for such a pair fails with
\* NoValueStored or reports AllowanceReturned(0).
C18_EntryOrigin ==
    /\ \A key \in DOMAIN storage.Allowances :
          key \in DOMAIN unspent \/ storage.Allowances[key] = 0
    /\ \A key \in DOMAIN storage.Allowances \ DOMAIN pre.Allowances :
          \/ /\ Succeeded("approve")
             /\ key = <<last.origin, last.args[1]>>
          \/ /\ Succeeded("transfer_from")
             /\ key = <<last.args[1], last.args[2]>>
             /\ last.args[3] = 0
             /\ storage.Allowances[key] = 0
    /\ (last.op = "allowance" /\ <<last.origin, last.args[1]>> \notin DOMAIN unspent) =>
          \/ last.result = "NoValueStored"
          \/ last.event = <<"AllowanceReturned", 0>>

\* The allowance query reports an entry for a pair whose owner never
\* approved the spender.
C18_Witness ==
    /\ Succeeded("allowance")
    /\ <<last.origin, last.args[1]>> \notin DOMAIN unspent
    /\ contains_key(storage.Allowances, <<last.origin, last.args[1]>>)
    /\ last.event = <<"AllowanceReturned", 0>>

\* C19: while minted is false the balance map has no entry: before the first
\* successful mint every transfer and transfer_from fails, balance_of fails
\* with NoValueStored, and so a successful mint finds an empty balance map.
C19_NoBalanceBeforeMint ==
    /\ ~storage.Minted => storage.Balances = EmptyMap
    /\ ~pre.Minted =>
          /\ last.op \in {"transfer", "transfer_from"} =>
                last.result \in MyError
          /\ last.op = "balance_of" => last.result = "NoValueStored"
    /\ Succeeded("mint") => pre.Balances = EmptyMap

\* Before the mint, a transfer_from within an approved allowance fails for
\* want of a balance entry and writes none.
C19_Witness ==
    /\ ~pre.Minted
    /\ last.op = "transfer_from"
    /\ last.args[3] > 0
    /\ get(pre.Allowances, <<last.args[1], last.args[2]>>) >= last.args[3]
    /\ last.result = "NoValueStored"
    /\ storage.Balances = EmptyMap

\* The token's metadata and the minted flag.
Metadata(s) == <<s.Name, s.Ticker, s.Decimals, s.MaxSupply, s.Minted>>

\* A balance entry as stored: whether it is present, and its amount.
BalanceEntry(s, a) == <<HasBalance(s, a), balance(s, a)>>

\* The call left alone every balance entry but those of the accounts in set.
BalancesKeptOutside(set) ==
    \A a \in AccountId \ set : BalanceEntry(storage, a) = BalanceEntry(pre, a)

\* The call left alone every allowance entry but those of the pairs in set.
AllowancesKeptOutside(set) ==
    \A key \in (AccountId \X AccountId) \ set :
        Entry(storage, key) = Entry(pre, key)

\* C20: the queries change nothing; approve changes only
\* allowance[(caller, spender)]; transfer changes only the balance entries of
\* caller and to; transfer_from changes only allowance[(from, to)] and the
\* balance entries of from and to; none of the three changes name, ticker,
\* decimals, maxSupply or minted.
C20_Frame ==
    /\ last.op \in {"name", "symbol", "decimals", "total_supply",
                    "balance_of", "allowance"} => storage = pre
    /\ last.op = "approve" =>
          /\ Metadata(storage) = Metadata(pre)
          /\ storage.Balances = pre.Balances
          /\ AllowancesKeptOutside({<<last.origin, last.args[1]>>})
    /\ last.op = "transfer" =>
          /\ Metadata(storage) = Metadata(pre)
          /\ storage.Allowances = pre.Allowances
          /\ BalancesKeptOutside({last.origin, last.args[1]})
    /\ last.op = "transfer_from" =>
          /\ Metadata(storage) = Metadata(pre)
          /\ AllowancesKeptOutside({<<last.args[1], last.args[2]>>})
          /\ BalancesKeptOutside({last.args[1], last.args[2]})

\* A third account has moved a value above zero between two others that
\* hold allowances for two pairs, and holds a balance itself.
C20_Witness ==
    /\ Succeeded("transfer_from")
    /\ last.args[3] > 0
    /\ last.origin \notin {last.args[1], last.args[2]}
    /\ HasBalance(pre, last.origin)
    /\ balance(pre, last.origin) > 0
    /\ Cardinality(DOMAIN pre.Allowances) > 1
    /\ storage # pre
    /\ balance(storage, last.origin) = balance(pre, last.origin)

====
